---- MODULE Spec2Model ----
(***************************************************************************)
(* rustemmer: Porter stemmer for Russian (package rustemmer, rustemmer.go). *)
(*                                                                         *)
(* A Go string is modelled as a sequence of units: a unit is a Unicode     *)
(* code point (a well-formed UTF-8 sequence) or a negative number (a byte  *)
(* that is not part of well-formed UTF-8).  A []rune is a sequence of code *)
(* points.  Offsets are those of the source (0-based, end-exclusive);      *)
(* sequences are 1-based, so r.word[i] of the source is word[i + 1] here.  *)
(***************************************************************************)
EXTENDS Integers, Sequences, FiniteSets, TLC

VARIABLES
    mu,        \* instance.mu: TRUE while the mutex is locked
    word,      \* instance.word
    RV,        \* instance.RV
    R2,        \* instance.R2
    pc,        \* pc[p]: the position of goroutine p
    todo,      \* todo[p]: the calls goroutine p has still to make
    api,       \* api[p]: the package-level function of p's current or last call
    arg,       \* arg[p]: its argument
    cur,       \* cur[p]: the parameter `word` of the method GetWordBase p is in
    words,     \* words[p]: the local `words` of NormalizeText
    k,         \* k[p]: the index of the range loop of NormalizeText
    ret,       \* ret[p]: the value p's last call returned
    trace,     \* the removeEndings calls of the method call in progress (history)
    panicked   \* a run-time panic (index or slice bounds out of range) happened

vars == <<mu, word, RV, R2, pc, todo, api, arg, cur, words, k, ret, trace, panicked>>

(***************************************************************************)
(* The code points of the characters used in the source and in the inputs. *)
(***************************************************************************)
ru ==
    [ a |-> 1072, b |-> 1073, v |-> 1074, g |-> 1075, d |-> 1076, e |-> 1077,
      yo |-> 1105, zh |-> 1078, z |-> 1079, i |-> 1080, j |-> 1081, k |-> 1082,
      l |-> 1083, m |-> 1084, n |-> 1085, o |-> 1086, p |-> 1087, r |-> 1088,
      s |-> 1089, t |-> 1090, u |-> 1091, f |-> 1092, h |-> 1093, c |-> 1094,
      ch |-> 1095, sh |-> 1096, sch |-> 1097, hard |-> 1098, y |-> 1099, soft |-> 1100,
      eh |-> 1101, yu |-> 1102, ya |-> 1103, A |-> 1040, M |-> 1052, P |-> 1055,
      space |-> 32, comma |-> 44, dot |-> 46, one |-> 49, three |-> 51, underscore |-> 95 ]

\* const VOWEL
VOWEL ==
    <<ru.a, ru.e, ru.yo, ru.i, ru.o, ru.u, ru.y, ru.eh, ru.yu, ru.ya>>

(***************************************************************************)
(* The suffix tables, in the order of the source.                          *)
(***************************************************************************)
suffixNN ==
    << <<ru.n, ru.n>> >>

suffixPerfectiveGerunds ==
    << << <<ru.v>>, <<ru.v, ru.sh, ru.i>>, <<ru.v, ru.sh, ru.i, ru.s, ru.soft>>,
          <<ru.v>>, <<ru.v, ru.sh, ru.i>>, <<ru.v, ru.sh, ru.i, ru.s, ru.soft>> >>,
       << <<ru.i, ru.v>>, <<ru.i, ru.v, ru.sh, ru.i>>,
          <<ru.i, ru.v, ru.sh, ru.i, ru.s, ru.soft>>,
          <<ru.y, ru.v>>, <<ru.y, ru.v, ru.sh, ru.i>>,
          <<ru.y, ru.v, ru.sh, ru.i, ru.s, ru.soft>> >> >>

suffixReflexives ==
    << <<ru.s, ru.ya>>, <<ru.s, ru.soft>> >>

suffixAdjective ==
    << <<ru.e, ru.e>>, <<ru.i, ru.e>>, <<ru.y, ru.e>>, <<ru.o, ru.e>>, <<ru.i, ru.m, ru.i>>, <<ru.y, ru.m, ru.i>>,
       <<ru.e, ru.j>>, <<ru.i, ru.j>>, <<ru.y, ru.j>>, <<ru.o, ru.j>>, <<ru.e, ru.m>>, <<ru.i, ru.m>>,
       <<ru.y, ru.m>>, <<ru.o, ru.m>>, <<ru.e, ru.g, ru.o>>, <<ru.o, ru.g, ru.o>>, <<ru.e, ru.m, ru.u>>, <<ru.o, ru.m, ru.u>>,
       <<ru.i, ru.h>>, <<ru.y, ru.h>>, <<ru.u, ru.yu>>, <<ru.yu, ru.yu>>, <<ru.a, ru.ya>>, <<ru.ya, ru.ya>>,
       <<ru.o, ru.yu>>, <<ru.e, ru.yu>> >>

suffixVerb ==
    << << <<ru.l, ru.a>>, <<ru.n, ru.a>>, <<ru.e, ru.t, ru.e>>, <<ru.j, ru.t, ru.e>>, <<ru.l, ru.i>>, <<ru.j>>,
          <<ru.l>>, <<ru.e, ru.m>>, <<ru.n>>, <<ru.l, ru.o>>, <<ru.n, ru.o>>, <<ru.e, ru.t>>,
          <<ru.yu, ru.t>>, <<ru.n, ru.y>>, <<ru.t, ru.soft>>, <<ru.e, ru.sh, ru.soft>>, <<ru.n, ru.n, ru.o>> >>,
       << <<ru.i, ru.l, ru.a>>, <<ru.y, ru.l, ru.a>>, <<ru.e, ru.n, ru.a>>, <<ru.e, ru.j, ru.t, ru.e>>, <<ru.u, ru.j, ru.t, ru.e>>, <<ru.i, ru.t, ru.e>>,
          <<ru.i, ru.l, ru.i>>, <<ru.y, ru.l, ru.i>>, <<ru.e, ru.j>>, <<ru.u, ru.j>>, <<ru.i, ru.l>>, <<ru.y, ru.l>>,
          <<ru.i, ru.m>>, <<ru.y, ru.m>>, <<ru.e, ru.n>>, <<ru.i, ru.l, ru.o>>, <<ru.y, ru.l, ru.o>>, <<ru.e, ru.n, ru.o>>,
          <<ru.ya, ru.t>>, <<ru.u, ru.e, ru.t>>, <<ru.u, ru.yu, ru.t>>, <<ru.i, ru.t>>, <<ru.y, ru.t>>, <<ru.e, ru.n, ru.y>>,
          <<ru.i, ru.t, ru.soft>>, <<ru.y, ru.t, ru.soft>>, <<ru.i, ru.sh, ru.soft>>, <<ru.u, ru.yu>>, <<ru.yu>> >> >>

suffixNoun ==
    << <<ru.a>>, <<ru.e, ru.v>>, <<ru.o, ru.v>>, <<ru.i, ru.e>>, <<ru.soft, ru.e>>, <<ru.e>>,
       <<ru.i, ru.ya, ru.m, ru.i>>, <<ru.ya, ru.m, ru.i>>, <<ru.a, ru.m, ru.i>>, <<ru.e, ru.i>>, <<ru.i, ru.i>>, <<ru.i>>,
       <<ru.i, ru.e, ru.j>>, <<ru.e, ru.j>>, <<ru.o, ru.j>>, <<ru.i, ru.j>>, <<ru.j>>, <<ru.i, ru.ya, ru.m>>,
       <<ru.ya, ru.m>>, <<ru.i, ru.e, ru.m>>, <<ru.e, ru.m>>, <<ru.a, ru.m>>, <<ru.o, ru.m>>, <<ru.o>>,
       <<ru.u>>, <<ru.a, ru.h>>, <<ru.i, ru.ya, ru.h>>, <<ru.ya, ru.h>>, <<ru.y>>, <<ru.soft>>,
       <<ru.i, ru.yu>>, <<ru.soft, ru.yu>>, <<ru.yu>>, <<ru.i, ru.ya>>, <<ru.soft, ru.ya>>, <<ru.ya>> >>

suffixSuperlative ==
    << <<ru.e, ru.j, ru.sh>>, <<ru.e, ru.j, ru.sh, ru.e>> >>

suffixSoftSign ==
    << <<ru.soft>> >>

suffixI ==
    << <<ru.i>> >>

suffixDerivational ==
    << <<ru.o, ru.s, ru.t>>, <<ru.o, ru.s, ru.t, ru.soft>> >>

(***************************************************************************)
(* Conversions between string and []rune.                                  *)
(***************************************************************************)
\* utf8.RuneError, U+FFFD: what an ill-formed byte decodes to
RuneError == 65533

\* a code point that string(rune) encodes as itself (not a surrogate, in range)
ValidRune(c) == c >= 0 /\ c <= 1114111 /\ ~(c >= 55296 /\ c <= 57343)

\* []rune(s): each ill-formed byte of s becomes RuneError
Runes(s) == [i \in 1..Len(s) |-> IF ValidRune(s[i]) THEN s[i] ELSE RuneError]

\* string(rs): each rune that is no valid code point is encoded as RuneError
String(rs) == [i \in 1..Len(rs) |-> IF ValidRune(rs[i]) THEN rs[i] ELSE RuneError]

(***************************************************************************)
(* package strings                                                         *)
(***************************************************************************)
HasSuffix(s, suffix) ==
    /\ Len(s) >= Len(suffix)
    /\ \A i \in 1..Len(suffix) : s[Len(s) - Len(suffix) + i] = suffix[i]

TrimSuffix(s, suffix) ==
    IF HasSuffix(s, suffix) THEN SubSeq(s, 1, Len(s) - Len(suffix)) ELSE s

RECURSIVE JoinFrom(_, _, _)
JoinFrom(elems, sep, i) ==
    IF i > Len(elems) THEN <<>>
    ELSE IF i = Len(elems) THEN elems[i]
    ELSE elems[i] \o sep \o JoinFrom(elems, sep, i + 1)

\* a Join that leaves out the empty elements
JoinDropEmpty(elems, sep) ==
    JoinFrom(SelectSeq(elems, LAMBDA e : e # <<>>), sep, 1)

\* strings.Join
Join(elems, sep) == JoinFrom(elems, sep, 1)

(***************************************************************************)
(* The regular expression [\p{L}\d_]+ of NormalizeText.  \p{L} is given    *)
(* for the Latin and Cyrillic letters; \d is the ASCII digits.             *)
(***************************************************************************)
IsLetter(c) ==
    \/ c >= 65 /\ c <= 90
    \/ c >= 97 /\ c <= 122
    \/ c >= 1024 /\ c <= 1153
    \/ c >= 1162 /\ c <= 1279

IsDigit(c) == c >= 48 /\ c <= 57

IsWordChar(c) == IsLetter(c) \/ IsDigit(c) \/ c = ru.underscore

\* the end of the longest match of [\p{L}\d_]+ that starts at i
RECURSIVE MatchEnd(_, _)
MatchEnd(text, i) ==
    IF i < Len(text) /\ IsWordChar(text[i + 1]) THEN MatchEnd(text, i + 1) ELSE i

\* regexWords.FindAllString(text, -1): the successive leftmost matches
RECURSIVE FindAllFrom(_, _)
FindAllFrom(text, i) ==
    IF i > Len(text) THEN <<>>
    ELSE IF ~IsWordChar(text[i]) THEN FindAllFrom(text, i + 1)
    ELSE LET j == MatchEnd(text, i)
         IN  <<SubSeq(text, i, j)>> \o FindAllFrom(text, j + 1)

FindAllString(text) == FindAllFrom(text, 1)

(***************************************************************************)
(* The helpers of the stemmer.                                             *)
(***************************************************************************)
\* func (r *RuStemmer) isVowel(char string) bool
isVowel(char) == \E i \in 1..Len(VOWEL) : VOWEL[i] = char

RECURSIVE Flatten(_, _)
Flatten(packs, i) ==
    IF i > Len(packs) THEN <<>> ELSE packs[i] \o Flatten(packs, i + 1)

\* func appendPrefix(strs []string, prefixesPacks ...[]string) []string
appendPrefix(strs, prefixesPacks) ==
    LET prefixes == Flatten(prefixesPacks, 1)
        n == Len(prefixes)
    IN  [idx \in 1..(Len(strs) * n) |->
            prefixes[((idx - 1) % n) + 1] \o strs[((idx - 1) \div n) + 1]]

suffixParticiple ==
    << appendPrefix(suffixAdjective,
           << << <<ru.e, ru.m>>, <<ru.n, ru.n>>, <<ru.v, ru.sh>>,
                 <<ru.yu, ru.sch>>, <<ru.sch>> >> >>),
       appendPrefix(suffixAdjective,
           << << <<ru.i, ru.v, ru.sh>>, <<ru.y, ru.v, ru.sh>>,
                 <<ru.u, ru.yu, ru.sch>> >> >>) >>

\* a test that never skips a suffix
skipSuffixNever(w, suffix, isAYA) == FALSE

\* the test of trimFirstSuffix that skips a suffix:
\* isAYA && !(strings.HasSuffix(word, "a" + suffix) || strings.HasSuffix(word, "ya" + suffix))
skipSuffix(w, suffix, isAYA) ==
    isAYA /\ ~(\/ HasSuffix(w, <<ru.a>> \o suffix)
               \/ HasSuffix(w, <<ru.ya>> \o suffix))

\* func trimFirstSuffix(word string, suffixes []string, isAYA bool) string
\* The loop returns at the first suffix, in the order of the list, that it does
\* not skip and that TrimSuffix removes.
trimFirstSuffix(w, suffixes, isAYA) ==
    LET Returns(i) == /\ ~skipSuffix(w, suffixes[i], isAYA)
                      /\ TrimSuffix(w, suffixes[i]) # w
        hits == {i \in 1..Len(suffixes) : Returns(i)}
        first == CHOOSE i \in hits : \A j \in hits : i <= j
    IN  IF hits = {} THEN w ELSE TrimSuffix(w, suffixes[first])

\* a region that is left as it is given
clampRegionNot(w, region) == region

\* if region > len(r.word) { region = len(r.word) }
clampRegion(w, region) == IF region > Len(w) THEN Len(w) ELSE region

\* func (r *RuStemmer) removeEndings(region int, suffixesPacks ...[]string) bool
\* on r.word = w.  region: the region after the clamp; panic: r.word[:region]
\* is out of range; word: r.word afterwards; ok: the value returned.
removeEndings(w, region, suffixesPacks) ==
    LET region_ == clampRegion(w, region)
        prefix == SubSeq(w, 1, region_)
        word_ == String(SubSeq(w, Len(prefix) + 1, Len(w)))
        first == trimFirstSuffix(word_, suffixesPacks[1], TRUE)
        suffixes == IF Len(suffixesPacks) = 2 THEN suffixesPacks[2]
                    ELSE suffixesPacks[1]
        second == trimFirstSuffix(word_, suffixes, FALSE)
    IN  IF region_ < 0 \/ region_ > Len(w)
        THEN [word |-> w, ok |-> FALSE, region |-> region_, panic |-> TRUE]
        ELSE IF Len(suffixesPacks) = 2 /\ first # word_
        THEN [word |-> Runes(String(prefix) \o first), ok |-> TRUE,
              region |-> region_, panic |-> FALSE]
        ELSE IF second # word_
        THEN [word |-> Runes(String(prefix) \o second), ok |-> TRUE,
              region |-> region_, panic |-> FALSE]
        ELSE [word |-> w, ok |-> FALSE, region |-> region_, panic |-> FALSE]

\* the loop of findRegions from index i on, in state `state`
RECURSIVE findRegionsFrom(_, _, _, _, _)
findRegionsFrom(w, i, state, rv, r2) ==
    IF ~(i < Len(w)) THEN [RV |-> rv, R2 |-> r2]
    ELSE LET prevChar == String(<<w[i]>>)[1]
             char == String(<<w[i + 1]>>)[1]
         IN  CASE state = 0 ->
                    IF isVowel(char)
                    THEN findRegionsFrom(w, i + 1, 1, i + 1, r2)
                    ELSE findRegionsFrom(w, i + 1, state, rv, r2)
               [] state = 1 ->
                    IF isVowel(prevChar) /\ ~isVowel(char)
                    THEN findRegionsFrom(w, i + 1, 2, rv, r2)
                    ELSE findRegionsFrom(w, i + 1, state, rv, r2)
               [] state = 2 ->
                    IF isVowel(prevChar) /\ ~isVowel(char)
                    THEN [RV |-> rv, R2 |-> i + 1]
                    ELSE findRegionsFrom(w, i + 1, state, rv, r2)

\* a findRegions whose R2, when the scan finds none, is the end of the word
findRegionsEndOfWord(w, rv, r2) ==
    LET found == findRegionsFrom(w, 1, 0, rv, r2)
    IN  [RV |-> found.RV, R2 |-> IF found.R2 = 0 THEN Len(w) ELSE found.R2]

\* func (r *RuStemmer) findRegions(), on r.word = w, r.RV = rv, r.R2 = r2
findRegions(w, rv, r2) == findRegionsFrom(w, 1, 0, rv, r2)

(***************************************************************************)
(* func (r *RuStemmer) GetWordBase(word string) string, as the function of *)
(* its argument it is on a stemmer of its own (New(), no other call).      *)
(***************************************************************************)
GetWordBase(w) ==
    LET w0 == Runes(w)
        reg == findRegions(w0, 0, 0)
        gerund == removeEndings(w0, reg.RV, suffixPerfectiveGerunds)
        reflexive == removeEndings(w0, reg.RV, <<suffixReflexives>>)
        participle == removeEndings(reflexive.word, reg.RV, suffixParticiple)
        adjective == removeEndings(reflexive.word, reg.RV, <<suffixAdjective>>)
        verb == removeEndings(reflexive.word, reg.RV, suffixVerb)
        noun == removeEndings(reflexive.word, reg.RV, <<suffixNoun>>)
        step1 == IF gerund.ok THEN gerund.word
                 ELSE IF participle.ok THEN participle.word
                 ELSE IF adjective.ok THEN adjective.word
                 ELSE IF verb.ok THEN verb.word
                 ELSE noun.word
        step2 == removeEndings(step1, reg.RV, <<suffixI>>).word
        step3 == removeEndings(step2, reg.R2, <<suffixDerivational>>).word
        nn == removeEndings(step3, reg.RV, <<suffixNN>>)
        step4a == IF nn.ok THEN Runes(String(nn.word) \o <<ru.n>>) ELSE nn.word
        step4b == removeEndings(step4a, reg.RV, <<suffixSuperlative>>).word
        step4c == removeEndings(step4b, reg.RV, <<suffixSoftSign>>).word
    IN  String(step4c)

\* func (r *RuStemmer) NormalizeText(text string) string, likewise
NormalizeText(text) ==
    LET found == FindAllString(text)
    IN  Join([i \in 1..Len(found) |-> GetWordBase(found[i])], <<ru.space>>)

(***************************************************************************)
(* The inputs: every word over Alphabet of at most MaxWordLen characters   *)
(* and the words of ExampleWords, for one goroutine calling GetWordBase;   *)
(* every text over TextAlphabet of at most MaxTextLen characters and the   *)
(* texts of ExampleTexts, for one goroutine calling NormalizeText; and two *)
(* goroutines making at most MaxCalls calls each out of SharedCalls.       *)
(***************************************************************************)
MaxWordLen == 4
MaxTextLen == 3
MaxCalls == 1

Procs == {1, 2}

Alphabet == {ru.s, ru.t, ru.a, ru.o, ru.soft, ru.n}

TextAlphabet == {ru.a, ru.soft, ru.one, ru.underscore, ru.space, ru.comma}

StringsUpTo(chars, n) == UNION {[1..m -> chars] : m \in 0..n}

\* the text of README.md and of ExampleNormalizeText
ReadmeText ==
    <<ru.g, ru.dot, ru.space, ru.M, ru.o, ru.s, ru.k, ru.v, ru.a, ru.comma,
      ru.space, ru.u, ru.l, ru.dot, ru.space, ru.P, ru.o, ru.l, ru.ya, ru.r,
      ru.n, ru.a, ru.ya, ru.comma, ru.space, ru.d, ru.dot, ru.space, ru.three,
      ru.one, ru.A, ru.comma, ru.space, ru.s, ru.t, ru.r, ru.dot, ru.space,
      ru.one>>

\* what README.md says NormalizeText displays for it
ReadmeNormalized ==
    <<ru.g, ru.space, ru.M, ru.o, ru.s, ru.k, ru.v, ru.space, ru.u, ru.l,
      ru.space, ru.P, ru.o, ru.l, ru.ya, ru.r, ru.n, ru.space, ru.d, ru.space,
      ru.three, ru.one, ru.A, ru.space, ru.s, ru.t, ru.r, ru.space, ru.one>>

\* the word of README.md and of ExampleGetWordBase
ReadmeWord == <<ru.v, ru.a, ru.z, ru.y>>

ExampleWords ==
    { ReadmeWord,
      <<ru.M, ru.o, ru.s, ru.k, ru.v, ru.a>>,
      <<ru.P, ru.o, ru.l, ru.ya, ru.r, ru.n, ru.a, ru.ya>>,
      <<ru.three, ru.one, ru.A>>,
      <<ru.p, ru.r, ru.o, ru.ch, ru.i, ru.t, ru.a, ru.v>>,
      <<ru.ch, ru.i, ru.t, ru.a, ru.yu, ru.sch, ru.a, ru.ya>>,
      <<ru.ch, ru.i, ru.t, ru.a, ru.l, ru.a>>,
      <<ru.g, ru.a, ru.l, ru.i, ru.e, ru.v>>,
      <<ru.s, ru.i, ru.l, ru.soft, ru.n, ru.e, ru.j, ru.sh, ru.i, ru.j>>,
      <<ru.g, ru.o, ru.t, ru.o, ru.v, ru.n, ru.o, ru.s, ru.t, ru.soft>>,
      <<ru.s, ru.a, ru.t, ru.a, ru.t>>,
      <<ru.k, ru.o, ru.s, ru.t, ru.ya, ru.m, ru.i>>,
      <<-255, ru.a, ru.s, ru.soft>> }

ExampleTexts ==
    { ReadmeText,
      <<ru.s, ru.soft, ru.dot, -255, ru.s, ru.o, ru.s, ru.t>> }

Words == StringsUpTo(Alphabet, MaxWordLen) \cup ExampleWords

Texts == StringsUpTo(TextAlphabet, MaxTextLen) \cup ExampleTexts

Call(f, a) == [api |-> f, arg |-> a]

SharedCalls ==
    { Call("GetWordBase", <<ru.s, ru.a, ru.t, ru.a, ru.t>>),
      Call("GetWordBase", <<ru.s, ru.o, ru.s, ru.t>>),
      Call("NormalizeText", <<ru.s, ru.o, ru.s, ru.t, ru.space, ru.soft>>) }

Workloads ==
    { [p \in Procs |-> IF p = 1 THEN <<Call("GetWordBase", w)>> ELSE <<>>] :
          w \in Words }
    \cup
    { [p \in Procs |-> IF p = 1 THEN <<Call("NormalizeText", t)>> ELSE <<>>] :
          t \in Texts }
    \cup
    [Procs -> UNION {[1..n -> SharedCalls] : n \in 0..MaxCalls}]

(***************************************************************************)
(* The state after the package is initialised: var instance = New().       *)
(***************************************************************************)
Init ==
    /\ mu = FALSE
    /\ word = <<>>
    /\ RV = 0
    /\ R2 = 0
    /\ pc = [p \in Procs |-> "idle"]
    /\ todo \in Workloads
    /\ api = [p \in Procs |-> "none"]
    /\ arg = [p \in Procs |-> <<>>]
    /\ cur = [p \in Procs |-> <<>>]
    /\ words = [p \in Procs |-> <<>>]
    /\ k = [p \in Procs |-> 0]
    /\ ret = [p \in Procs |-> <<>>]
    /\ trace = <<>>
    /\ panicked = FALSE

(***************************************************************************)
(* The callers.                                                            *)
(***************************************************************************)
\* goroutine p calls GetWordBase(arg) or NormalizeText(arg) of the package
Invoke(p) ==
    /\ ~panicked
    /\ pc[p] = "idle"
    /\ todo[p] # <<>>
    /\ api' = [api EXCEPT ![p] = Head(todo[p]).api]
    /\ arg' = [arg EXCEPT ![p] = Head(todo[p]).arg]
    /\ todo' = [todo EXCEPT ![p] = Tail(todo[p])]
    /\ ret' = [ret EXCEPT ![p] = <<>>]
    /\ words' = [words EXCEPT ![p] = <<>>]
    /\ k' = [k EXCEPT ![p] = 0]
    /\ cur' = [cur EXCEPT ![p] = <<>>]
    /\ pc' = [pc EXCEPT ![p] = "lock"]
    /\ UNCHANGED <<mu, word, RV, R2, trace, panicked>>

\* instance.mu.Lock() of the package-level GetWordBase and NormalizeText
Lock(p) ==
    /\ ~panicked
    /\ pc[p] = "lock"
    /\ ~mu
    /\ mu' = TRUE
    /\ IF api[p] = "GetWordBase"
       THEN /\ cur' = [cur EXCEPT ![p] = arg[p]]
            /\ pc' = [pc EXCEPT ![p] = "reset"]
       ELSE /\ cur' = cur
            /\ pc' = [pc EXCEPT ![p] = "findAll"]
    /\ UNCHANGED <<word, RV, R2, todo, api, arg, words, k, ret, trace, panicked>>

(***************************************************************************)
(* func (r *RuStemmer) NormalizeText(text string) string                   *)
(***************************************************************************)
\* words := regexWords.FindAllString(text, -1)
FindAll(p) ==
    /\ ~panicked
    /\ pc[p] = "findAll"
    /\ words' = [words EXCEPT ![p] = FindAllString(arg[p])]
    /\ k' = [k EXCEPT ![p] = 0]
    /\ pc' = [pc EXCEPT ![p] = "range"]
    /\ UNCHANGED <<mu, word, RV, R2, todo, api, arg, cur, ret, trace, panicked>>

\* for k, word := range words: the call r.GetWordBase(word) of the next word
Range(p) ==
    /\ ~panicked
    /\ pc[p] = "range"
    /\ k[p] < Len(words[p])
    /\ cur' = [cur EXCEPT ![p] = words[p][k[p] + 1]]
    /\ pc' = [pc EXCEPT ![p] = "reset"]
    /\ UNCHANGED <<mu, word, RV, R2, todo, api, arg, words, k, ret, trace, panicked>>

\* return strings.Join(words, " "), and the deferred instance.mu.Unlock()
JoinWords(p) ==
    /\ ~panicked
    /\ pc[p] = "range"
    /\ ~(k[p] < Len(words[p]))
    /\ ret' = [ret EXCEPT ![p] = Join(words[p], <<ru.space>>)]
    /\ mu' = FALSE
    /\ pc' = [pc EXCEPT ![p] = "idle"]
    /\ UNCHANGED <<word, RV, R2, todo, api, arg, cur, words, k, trace, panicked>>

(***************************************************************************)
(* func (r *RuStemmer) GetWordBase(word string) string, on the instance.   *)
(***************************************************************************)
\* a GetWordBase that sets r.word and leaves r.RV and r.R2 as they are
ResetWordOnly(p) ==
    /\ ~panicked
    /\ pc[p] = "reset"
    /\ word' = Runes(cur[p])
    /\ trace' = <<>>
    /\ pc' = [pc EXCEPT ![p] = "findRegions"]
    /\ UNCHANGED <<mu, RV, R2, todo, api, arg, cur, words, k, ret, panicked>>

\* r.word = []rune(word); r.RV = 0; r.R2 = 0
Reset(p) ==
    /\ ~panicked
    /\ pc[p] = "reset"
    /\ word' = Runes(cur[p])
    /\ RV' = 0
    /\ R2' = 0
    /\ trace' = <<>>
    /\ pc' = [pc EXCEPT ![p] = "findRegions"]
    /\ UNCHANGED <<mu, todo, api, arg, cur, words, k, ret, panicked>>

\* r.findRegions()
FindRegions(p) ==
    /\ ~panicked
    /\ pc[p] = "findRegions"
    /\ RV' = findRegions(word, RV, R2).RV
    /\ R2' = findRegions(word, RV, R2).R2
    /\ pc' = [pc EXCEPT ![p] = "gerund"]
    /\ UNCHANGED <<mu, word, todo, api, arg, cur, words, k, ret, trace, panicked>>

\* one call r.removeEndings(region, suffixesPacks...) by p, which then goes to
\* onOk when it returns true and to onFail when it returns false
Attempt(p, rule, region, suffixesPacks, onOk, onFail) ==
    LET res == removeEndings(word, region, suffixesPacks)
    IN  /\ ~panicked
        /\ pc[p] = rule
        /\ IF res.panic
           THEN /\ panicked' = TRUE
                /\ UNCHANGED <<word, trace, pc>>
           ELSE /\ panicked' = FALSE
                /\ word' = res.word
                /\ trace' = Append(trace,
                       [rule |-> rule, asked |-> region, region |-> res.region,
                        before |-> word, after |-> res.word, ok |-> res.ok])
                /\ pc' = [pc EXCEPT ![p] = IF res.ok THEN onOk ELSE onFail]
        /\ UNCHANGED <<mu, RV, R2, todo, api, arg, cur, words, k, ret>>

\* Step 1: if !r.removeEndings(r.RV, suffixPerfectiveGerunds[0], suffixPerfectiveGerunds[1])
Step1Gerund(p) ==
    Attempt(p, "gerund", RV, suffixPerfectiveGerunds, "i", "reflexive")

\* r.removeEndings(r.RV, suffixReflexives)
Step1Reflexive(p) ==
    Attempt(p, "reflexive", RV, <<suffixReflexives>>, "participle", "participle")

\* ife := r.removeEndings(r.RV, suffixParticiple[0], suffixParticiple[1]) || ...
Step1Participle(p) ==
    Attempt(p, "participle", RV, suffixParticiple, "i", "adjective")

\* ... || r.removeEndings(r.RV, suffixAdjective)
Step1Adjective(p) ==
    Attempt(p, "adjective", RV, <<suffixAdjective>>, "i", "verb")

\* a Step 1 that tries the noun suffixes whatever the verb removal returned
Step1VerbThenNoun(p) ==
    Attempt(p, "verb", RV, suffixVerb, "noun", "noun")

\* if !ife && !r.removeEndings(r.RV, suffixVerb[0], suffixVerb[1])
Step1Verb(p) ==
    Attempt(p, "verb", RV, suffixVerb, "i", "noun")

\* r.removeEndings(r.RV, suffixNoun)
Step1Noun(p) ==
    Attempt(p, "noun", RV, <<suffixNoun>>, "i", "i")

\* Step 2: r.removeEndings(r.RV, suffixI)
Step2I(p) ==
    Attempt(p, "i", RV, <<suffixI>>, "derivational", "derivational")

\* Step 3: r.removeEndings(r.R2, suffixDerivational)
Step3Derivational(p) ==
    Attempt(p, "derivational", R2, <<suffixDerivational>>, "nn", "nn")

\* a Step 4 that appends the letter whether or not "nn" was removed
Step4NNAlwaysAppend(p) ==
    LET res == removeEndings(word, RV, <<suffixNN>>)
    IN  /\ ~panicked
        /\ pc[p] = "nn"
        /\ panicked' = res.panic
        /\ word' = Runes(String(res.word) \o <<ru.n>>)
        /\ trace' = Append(trace,
               [rule |-> "nn", asked |-> RV, region |-> res.region,
                before |-> word, after |-> res.word, ok |-> res.ok])
        /\ pc' = [pc EXCEPT ![p] = "superlative"]
        /\ UNCHANGED <<mu, RV, R2, todo, api, arg, cur, words, k, ret>>

\* Step 4: if r.removeEndings(r.RV, suffixNN) { r.word = []rune(string(r.word) + "n") }
Step4NN(p) ==
    LET res == removeEndings(word, RV, <<suffixNN>>)
    IN  /\ ~panicked
        /\ pc[p] = "nn"
        /\ IF res.panic
           THEN /\ panicked' = TRUE
                /\ UNCHANGED <<word, trace, pc>>
           ELSE /\ panicked' = FALSE
                /\ word' = IF res.ok THEN Runes(String(res.word) \o <<ru.n>>)
                           ELSE res.word
                /\ trace' = Append(trace,
                       [rule |-> "nn", asked |-> RV, region |-> res.region,
                        before |-> word, after |-> res.word, ok |-> res.ok])
                /\ pc' = [pc EXCEPT ![p] = "superlative"]
        /\ UNCHANGED <<mu, RV, R2, todo, api, arg, cur, words, k, ret>>

\* r.removeEndings(r.RV, suffixSuperlative)
Step4Superlative(p) ==
    Attempt(p, "superlative", RV, <<suffixSuperlative>>, "softSign", "softSign")

\* r.removeEndings(r.RV, suffixSoftSign)
Step4SoftSign(p) ==
    Attempt(p, "softSign", RV, <<suffixSoftSign>>, "return", "return")

\* return string(r.word): to the package-level GetWordBase, which returns it
\* and runs the deferred instance.mu.Unlock(), or to the loop of NormalizeText
\* (words[k] = r.GetWordBase(word))
Return(p) ==
    /\ ~panicked
    /\ pc[p] = "return"
    /\ IF api[p] = "GetWordBase"
       THEN /\ ret' = [ret EXCEPT ![p] = String(word)]
            /\ mu' = FALSE
            /\ pc' = [pc EXCEPT ![p] = "idle"]
            /\ UNCHANGED <<words, k>>
       ELSE /\ words' = [words EXCEPT ![p][k[p] + 1] = String(word)]
            /\ k' = [k EXCEPT ![p] = k[p] + 1]
            /\ pc' = [pc EXCEPT ![p] = "range"]
            /\ UNCHANGED <<ret, mu>>
    /\ UNCHANGED <<word, RV, R2, todo, api, arg, cur, trace, panicked>>

Next ==
    \E p \in Procs :
        \/ Invoke(p)
        \/ Lock(p)
        \/ FindAll(p)
        \/ Range(p)
        \/ JoinWords(p)
        \/ Reset(p)
        \/ FindRegions(p)
        \/ Step1Gerund(p)
        \/ Step1Reflexive(p)
        \/ Step1Participle(p)
        \/ Step1Adjective(p)
        \/ Step1Verb(p)
        \/ Step1Noun(p)
        \/ Step2I(p)
        \/ Step3Derivational(p)
        \/ Step4NN(p)
        \/ Step4Superlative(p)
        \/ Step4SoftSign(p)
        \/ Return(p)

Spec == Init /\ [][Next]_vars

(***************************************************************************)
(* Notions the properties are stated with.                                 *)
(***************************************************************************)
\* p is between instance.mu.Lock() and the deferred instance.mu.Unlock()
Holding(p) == pc[p] \notin {"idle", "lock"}

\* p's last call has returned ret[p]
Returned(p) == pc[p] = "idle" /\ api[p] # "none"

\* every goroutine has made all its calls
AllDone == \A p \in Procs : pc[p] = "idle" /\ todo[p] = <<>>

\* p has a step to take: the guards of the actions, which but for Invoke
\* (a call is left to make) and Lock (the mutex is free) are a position only
CanStep(p) ==
    /\ ~panicked
    /\ pc[p] = "idle" => todo[p] # <<>>
    /\ pc[p] = "lock" => ~mu

\* p is in the method GetWordBase, past the assignment of r.word
Stemming(p) ==
    pc[p] \in {"findRegions", "gerund", "reflexive", "participle", "adjective",
               "verb", "noun", "i", "derivational", "nn", "superlative",
               "softSign", "return"}

IsPrefix(s, t) == Len(s) <= Len(t) /\ \A i \in 1..Len(s) : s[i] = t[i]

\* the removal `rule` was attempted, and succeeded, in the call in progress
Has(rule) == \E i \in 1..Len(trace) : trace[i].rule = rule
Ok(rule) == \E i \in 1..Len(trace) : trace[i].rule = rule /\ trace[i].ok
At(rule) == CHOOSE i \in 1..Len(trace) : trace[i].rule = rule

\* the ten vowels
Vowels ==
    {ru.a, ru.e, ru.yo, ru.i, ru.o, ru.u, ru.y, ru.eh, ru.yu, ru.ya}

VowelPlaces(w) == {i \in 1..Len(w) : w[i] \in Vowels}

\* the maximal runs of word characters of text, as pairs <<first, last>>
Runs(text) ==
    {r \in (1..Len(text)) \X (1..Len(text)) :
        /\ r[1] <= r[2]
        /\ \A m \in r[1]..r[2] : IsWordChar(text[m])
        /\ r[1] = 1 \/ ~IsWordChar(text[r[1] - 1])
        /\ r[2] = Len(text) \/ ~IsWordChar(text[r[2] + 1])}

\* the runs as strings, in the order of the text
Tokens(text) ==
    [n \in 1..Cardinality(Runs(text)) |->
        LET r == CHOOSE r \in Runs(text) :
                     Cardinality({q \in Runs(text) : q[1] < r[1]}) = n - 1
        IN  SubSeq(text, r[1], r[2])]

\* where the i-th of the strings starts in their concatenation with one
\* separator between neighbours (0-based)
RECURSIVE Offset(_, _)
Offset(strs, i) ==
    IF i = 1 THEN 0 ELSE Offset(strs, i - 1) + Len(strs[i - 1]) + 1

\* out is strs[1], one space, strs[2], ..., one space, strs[n]
IsJoined(out, strs) ==
    IF strs = <<>> THEN out = <<>>
    ELSE /\ Len(out) = Offset(strs, Len(strs)) + Len(strs[Len(strs)])
         /\ \A i \in 1..Len(strs) :
               /\ \A m \in 1..Len(strs[i]) : out[Offset(strs, i) + m] = strs[i][m]
               /\ i < Len(strs) =>
                     out[Offset(strs, i) + Len(strs[i]) + 1] = ru.space

\* the suffix lists removal `rule` is called with
PacksOf(rule) ==
    CASE rule = "gerund" -> suffixPerfectiveGerunds
      [] rule = "reflexive" -> <<suffixReflexives>>
      [] rule = "participle" -> suffixParticiple
      [] rule = "adjective" -> <<suffixAdjective>>
      [] rule = "verb" -> suffixVerb
      [] rule = "noun" -> <<suffixNoun>>
      [] rule = "i" -> <<suffixI>>
      [] rule = "derivational" -> <<suffixDerivational>>
      [] rule = "nn" -> <<suffixNN>>
      [] rule = "superlative" -> <<suffixSuperlative>>
      [] rule = "softSign" -> <<suffixSoftSign>>

(***************************************************************************)
(* C1.  NormalizeText returns the stems of the maximal runs of word        *)
(* characters of the text, in their order, joined by exactly one space     *)
(* each: n tokens give n - 1 separators, a token whose stem is empty is    *)
(* kept, and no token gives the empty string.                              *)
(***************************************************************************)
C1_NormalizeTextJoinsStems ==
    \A p \in Procs :
        Returned(p) /\ api[p] = "NormalizeText" =>
            LET tokens == Tokens(arg[p])
                stems == [i \in 1..Len(tokens) |-> GetWordBase(tokens[i])]
            IN  /\ IsJoined(ret[p], stems)
                /\ Len(words[p]) = Len(tokens)

\* a text of two tokens or more, one of them stemmed to the empty string
C1_Witness ==
    \E p \in Procs :
        /\ Returned(p) /\ api[p] = "NormalizeText"
        /\ Cardinality(Runs(arg[p])) >= 2
        /\ \E i \in 1..Len(words[p]) : words[p][i] = <<>>
        /\ Len(ret[p]) >= 1

(***************************************************************************)
(* C2.  NormalizeText of the text of README.md returns the text README.md  *)
(* gives: the two words with an ending lose it, and in the other six       *)
(* tokens no removal succeeds.                                             *)
(***************************************************************************)
C2_ReadmeText ==
    \A p \in Procs :
        api[p] = "NormalizeText" /\ arg[p] = ReadmeText =>
            /\ Returned(p) => ret[p] = ReadmeNormalized
            /\ pc[p] = "return" =>
                  IF cur[p] = <<ru.M, ru.o, ru.s, ru.k, ru.v, ru.a>>
                  THEN word = <<ru.M, ru.o, ru.s, ru.k, ru.v>>
                  ELSE IF cur[p] = <<ru.P, ru.o, ru.l, ru.ya, ru.r, ru.n, ru.a, ru.ya>>
                  THEN word = <<ru.P, ru.o, ru.l, ru.ya, ru.r, ru.n>>
                  ELSE /\ cur[p] \in {<<ru.g>>, <<ru.u, ru.l>>, <<ru.d>>,
                                      <<ru.three, ru.one, ru.A>>,
                                      <<ru.s, ru.t, ru.r>>, <<ru.one>>}
                       /\ word = cur[p]
                       /\ \A i \in 1..Len(trace) : ~trace[i].ok

C2_Witness ==
    \E p \in Procs :
        /\ Returned(p) /\ api[p] = "NormalizeText" /\ arg[p] = ReadmeText
        /\ Len(words[p]) = 8

(***************************************************************************)
(* C3.  GetWordBase is total: no removal attempt indexes out of bounds,    *)
(* each runs with its region clamped to 0 <= region <= len(r.word), an     *)
(* empty tail matches nothing, the attempts of Steps 2 to 4 all run, and   *)
(* the call goes on until it returns a string.                             *)
(***************************************************************************)
C3_GetWordBaseTotal ==
    /\ ~panicked
    /\ \A i \in 1..Len(trace) :
          /\ 0 <= trace[i].region
          /\ trace[i].region <= Len(trace[i].before)
          /\ trace[i].region = IF trace[i].asked > Len(trace[i].before)
                               THEN Len(trace[i].before) ELSE trace[i].asked
          /\ trace[i].region = Len(trace[i].before) =>
                ~trace[i].ok /\ trace[i].after = trace[i].before
    /\ Len(trace) <= 11
    /\ \A p \in Procs :
          /\ pc[p] = "return" =>
                \A rule \in {"gerund", "i", "derivational", "nn", "superlative",
                             "softSign"} : Has(rule)
          /\ Returned(p) => \A i \in 1..Len(ret[p]) : ValidRune(ret[p][i])
    /\ AllDone \/ \E p \in Procs : CanStep(p)

\* a call that has returned after an attempt whose region was beyond the end
\* of the word and an attempt on a word with an empty tail
C3_Witness ==
    \E p \in Procs :
        /\ Returned(p) /\ api[p] = "GetWordBase"
        /\ \E i \in 1..Len(trace) : trace[i].asked > Len(trace[i].before)
        /\ \E i \in 1..Len(trace) : trace[i].region = Len(trace[i].before)

(***************************************************************************)
(* C4.  The calls of the package-level GetWordBase and NormalizeText are   *)
(* serialized by the mutex: at most one is between Lock and Unlock, the    *)
(* mutex is locked exactly while one is, some goroutine can always go on   *)
(* until all calls have returned, and every call returns what it returns   *)
(* alone on a stemmer of its own.                                          *)
(***************************************************************************)
C4_CallsSerialized ==
    /\ Cardinality({p \in Procs : Holding(p)}) <= 1
    /\ mu <=> \E p \in Procs : Holding(p)
    /\ (\E p \in Procs : pc[p] = "lock") => \E q \in Procs : CanStep(q)
    /\ \A p \in Procs :
          Returned(p) =>
              ret[p] = IF api[p] = "GetWordBase" THEN GetWordBase(arg[p])
                       ELSE NormalizeText(arg[p])

\* both goroutines have returned, one of them from a word whose R2 is 5 and
\* the other from a word whose R2 is 0
C4_Witness ==
    \E p, q \in Procs :
        /\ p # q
        /\ Returned(p) /\ arg[p] = <<ru.s, ru.a, ru.t, ru.a, ru.t>>
        /\ Returned(q) /\ arg[q] = <<ru.s, ru.o, ru.s, ru.t>>
        /\ ret[q] = <<ru.s>>

(***************************************************************************)
(* C5.  A word without a vowel is returned by GetWordBase unchanged, and   *)
(* no removal succeeds on it.                                              *)
(***************************************************************************)
C5_NoVowelUnchanged ==
    \A p \in Procs :
        Returned(p) /\ api[p] = "GetWordBase" /\ VowelPlaces(Runes(arg[p])) = {} =>
            Runes(ret[p]) = Runes(arg[p])

(***************************************************************************)
(* C6.  GetWordBase is not idempotent: the stem it returns for the word    *)
(* NotIdempotentOn is stemmed further by a second call.                    *)
(***************************************************************************)
NotIdempotentOn == <<ru.k, ru.o, ru.s, ru.t, ru.ya, ru.m, ru.i>>

C6_NotIdempotent ==
    \A p \in Procs :
        Returned(p) /\ api[p] = "GetWordBase" /\ arg[p] = NotIdempotentOn =>
            /\ GetWordBase(ret[p]) # ret[p]
            /\ Len(GetWordBase(ret[p])) < Len(ret[p])

C6_Witness ==
    \E p \in Procs :
        /\ Returned(p) /\ api[p] = "GetWordBase" /\ arg[p] = NotIdempotentOn
        /\ ret[p] = <<ru.k, ru.o, ru.s, ru.t>>

(***************************************************************************)
(* C7.  The branches of Step 1 exclude each other: at most one of the      *)
(* removals gerund, participle, adjective, verb, noun succeeds; after a    *)
(* gerund removal none of the others nor the reflexive one is attempted;   *)
(* otherwise the reflexive removal comes first and the participle removal  *)
(* follows whatever it returned; adjective is attempted exactly when       *)
(* participle failed, verb when adjective failed too, noun when verb       *)
(* failed too.                                                             *)
(***************************************************************************)
C7_Step1Exclusive ==
    /\ Cardinality({rule \in {"gerund", "participle", "adjective", "verb", "noun"} :
                       Ok(rule)}) <= 1
    /\ \A i, j \in 1..Len(trace) : trace[i].rule = trace[j].rule => i = j
    /\ trace # <<>> => trace[1].rule = "gerund"
    /\ Ok("gerund") =>
          \A rule \in {"reflexive", "participle", "adjective", "verb", "noun"} :
              ~Has(rule)
    /\ Len(trace) >= 2 /\ ~Ok("gerund") => trace[2].rule = "reflexive"
    /\ Len(trace) >= 3 /\ ~Ok("gerund") => trace[3].rule = "participle"
    /\ Has("adjective") => Has("participle") /\ ~Ok("participle")
    /\ Has("verb") => Has("adjective") /\ ~Ok("adjective")
    /\ Has("noun") => Has("verb") /\ ~Ok("verb")
    /\ Has("i") =>
          /\ Has("participle") /\ ~Ok("participle") => Has("adjective")
          /\ Has("adjective") /\ ~Ok("adjective") => Has("verb")
          /\ Has("verb") /\ ~Ok("verb") => Has("noun")

\* Step 1 is over, the reflexive removal succeeded and the noun one after it
C7_Witness ==
    Has("i") /\ Ok("reflexive") /\ Ok("noun")

(***************************************************************************)
(* C8.  After findRegions, RV is the offset just after the first vowel of  *)
(* the word, and 0 only when the word has no vowel.                        *)
(***************************************************************************)
C8_RVAfterFirstVowel ==
    \A p \in Procs :
        pc[p] = "gerund" =>
            RV = IF VowelPlaces(word) = {} THEN 0
                 ELSE CHOOSE i \in VowelPlaces(word) :
                          \A j \in VowelPlaces(word) : i <= j

(***************************************************************************)
(* C9.  Step 3 removes a derivational suffix only inside R2, which is      *)
(* further into the word than RV: what it removes lies at offsets >= RV.   *)
(***************************************************************************)
C9_Step3BeyondRV ==
    Ok("derivational") =>
        /\ trace[At("derivational")].region >= RV
        /\ Len(trace[At("derivational")].after) >= RV
        /\ SubSeq(trace[At("derivational")].after, 1, RV)
               = SubSeq(trace[At("derivational")].before, 1, RV)

(***************************************************************************)
(* C10.  The word is always a prefix of the input, and so is the stem:     *)
(* each removeEndings call removes at most one suffix of its lists from    *)
(* the end and nothing else, and the "nn" step leaves the word without its *)
(* last character.                                                         *)
(***************************************************************************)
C10_StemIsPrefix ==
    /\ \A p \in Procs :
          /\ Stemming(p) => IsPrefix(word, Runes(cur[p]))
          /\ Returned(p) /\ api[p] = "GetWordBase" =>
                IsPrefix(Runes(ret[p]), Runes(arg[p]))
          /\ pc[p] = "superlative" /\ Ok("nn") =>
                /\ Len(word) = Len(trace[At("nn")].before) - 1
                /\ word = SubSeq(trace[At("nn")].before, 1,
                                 Len(trace[At("nn")].before) - 1)
    /\ \A i \in 1..Len(trace) :
          /\ IsPrefix(trace[i].after, trace[i].before)
          /\ ~trace[i].ok => trace[i].after = trace[i].before
          /\ trace[i].ok =>
                \E n \in 1..Len(PacksOf(trace[i].rule)) :
                    \E m \in 1..Len(PacksOf(trace[i].rule)[n]) :
                        /\ trace[i].before =
                               trace[i].after \o PacksOf(trace[i].rule)[n][m]
                        /\ Len(trace[i].after) >= trace[i].region

\* the "nn" step has just replaced "nn" by "n"
C10_Witness ==
    \E p \in Procs : pc[p] = "superlative" /\ Ok("nn") /\ Len(word) >= 2

====
